---- MODULE Spec2Model ----
(***************************************************************************)
(* Model of source/lib/debug.cpp (0 A.D.): the error reporter              *)
(* (debug_display_error and its helpers) and the symbol-string cache       *)
(* (debug_get_symbol_string and its helpers).                              *)
(***************************************************************************)
EXTENDS Integers, Sequences, FiniteSets, TLC

VARIABLES
    already_in_progress, \* static uintptr_t already_in_progress (0 or 1)
    exit_requested,      \* static bool exit_requested
    suppress_cell,       \* the callers' u8 suppress cells
    stack,               \* per thread: the activations of debug_display_error
    scen,                \* observer: modes of the first reports of the process
    string_buf,          \* static char* string_buf: NULL or the arena's bytes
    string_buf_pos,      \* static char* string_buf_pos, as an offset
    symbols,             \* static Symbol* symbols: NULL or the hash table
    total_symbols,       \* static uint total_symbols
    call,                \* the running call of debug_get_symbol_string
    first,               \* observer: per address, the first string cached
    uncached,            \* observer: the first string returned without caching
    built,               \* the last description symbol_string_build formatted
    tags,                \* static u32 tags[MAX_TAGS]; element i + 1 is slot i
    num_tags,            \* static uint num_tags
    tags_oob,            \* a write of debug_filter_add landed outside tags
    shown,               \* what the last debug_printf did with its text
    live,                \* observer: topics added and not removed or cleared
    lastop,              \* observer: the last call that changed the filter
    fresh,               \* observer: topics added since the last clear
    debug_log,           \* wchar_t debug_log[LOG_CHARS]; element i + 1 is unit i
    debug_log_pos,       \* wchar_t* debug_log_pos, as an offset into debug_log
    log_oob,             \* an append wrote outside debug_log
    lastlog,             \* observer: the last call of debug_wprintf_mem
    comp,                \* observer: the compaction of the last call, if any
    tls_key,             \* static pthread_key_t tls_key
    tls_once,            \* static pthread_once_t tls_once
    tls,                 \* the thread-specific values stored under the key
    tcall,               \* per thread: its call of debug_set/get_thread_name
    inits,               \* observer: how often tls_init has run
    named                \* observer: per thread, the name it last set

reportVars == <<already_in_progress, exit_requested, suppress_cell, stack, scen>>

cacheVars == <<string_buf, string_buf_pos, symbols, total_symbols, call, first, uncached>>

filterVars == <<tags, num_tags, tags_oob, shown, live, lastop, fresh>>

logVars == <<debug_log, debug_log_pos, log_oob, lastlog, comp>>

tlsVars == <<tls_key, tls_once, tls, tcall, inits, named>>

buildVars == <<built>>

otherVars == <<filterVars, logVars, tlsVars, buildVars>>

exceptFilter == <<reportVars, cacheVars, logVars, tlsVars, buildVars>>

exceptLog == <<reportVars, cacheVars, filterVars, tlsVars, buildVars>>

exceptTls == <<reportVars, cacheVars, filterVars, logVars, buildVars>>

vars == <<reportVars, cacheVars, otherVars>>

(***************************************************************************)
(* Bounds and input sets.                                                  *)
(***************************************************************************)
\* most activations of debug_display_error alive at once, over all threads
MaxFrames == 2

Threads == {"T1", "T2"}

\* u8* suppress: NULL, or the address of a call site's suppress cell
NULL == "NULL"
SuppressCells == {"cellA"}
SuppressRefs == {NULL} \cup SuppressCells

\* values of a suppress cell
DEBUG_SUPPRESS == "DEBUG_SUPPRESS"
UNSET == "unset"

ER_CONTINUE == "ER_CONTINUE"
ER_BREAK == "ER_BREAK"
ER_SUPPRESS == "ER_SUPPRESS"
ER_EXIT == "ER_EXIT"
ER_NOT_IMPLEMENTED == "ER_NOT_IMPLEMENTED"
\* what a display sink may answer
Decisions == {ER_CONTINUE, ER_BREAK, ER_SUPPRESS, ER_EXIT}

(***************************************************************************)
(* Activations.                                                            *)
(***************************************************************************)
Top(t) == stack[t][Len(stack[t])]

AllFrames == {<<t, i>> : t \in Threads, i \in 1..MaxFrames}

Frames == {p \in AllFrames : p[2] <= Len(stack[p[1]])}

FrameAt(p) == stack[p[1]][p[2]]

RECURSIVE SumLen(_)
SumLen(T) ==
    IF T = {} THEN 0
    ELSE LET t == CHOOSE x \in T : TRUE IN Len(stack[t]) + SumLen(T \ {t})

TotalFrames == SumLen(Threads)

\* the process was killed by a write through a null pointer
Faulted ==
    \E t \in Threads : IF stack[t] = <<>> THEN FALSE ELSE Top(t).pc = "fault"

\* places where the running activation has called out of debug_display_error
\* into code that may itself report an error on the same thread
CalloutPcs == {"dump", "crashlog", "exit"}

CanCall(t) ==
    /\ ~Faulted
    /\ TotalFrames < MaxFrames
    /\ IF stack[t] = <<>> THEN TRUE ELSE Top(t).pc \in CalloutPcs

Push(t, f) == stack' = [stack EXCEPT ![t] = Append(@, f)]

SetTop(t, f) == stack' = [stack EXCEPT ![t] = [@ EXCEPT ![Len(@)] = f]]

Running(t, pc) ==
    /\ ~Faulted
    /\ IF stack[t] = <<>> THEN FALSE ELSE Top(t).pc = pc

NewFrame(mb, sup) ==
    [pc |-> "cas", mb |-> mb, sup |-> sup, nested |-> FALSE,      er |-> "none", ret |-> "none", out |-> 0, logs |-> 0, disp |-> 0, brk |-> 0]

\* mutant: the sentinel in the caller's cell is not looked at
should_suppress_error_NoSentinel(suppress) ==
    IF suppress = NULL THEN FALSE
    ELSE IF exit_requested THEN TRUE
    ELSE FALSE

(***************************************************************************)
(* should_suppress_error                                                   *)
(***************************************************************************)
should_suppress_error(suppress) ==
    IF suppress = NULL THEN FALSE
    ELSE IF suppress_cell[suppress] = DEBUG_SUPPRESS THEN TRUE
    ELSE IF exit_requested THEN TRUE
    ELSE FALSE

(***************************************************************************)
(* debug_display_error, up to the allocation of the message buffer: the    *)
(* short circuit, the fix-up of the parameters and the summary line sent   *)
(* to the output channel (debug_wprintf).                                  *)
(***************************************************************************)
debug_display_error(t, manual_break, suppress) ==
    /\ CanCall(t)
    /\ IF should_suppress_error(suppress)
       THEN Push(t, [NewFrame(manual_break, suppress) EXCEPT
                        !.pc = "ret", !.ret = ER_CONTINUE])
       ELSE Push(t, [NewFrame(manual_break, suppress) EXCEPT !.out = 1])
    /\ UNCHANGED <<already_in_progress, exit_requested, suppress_cell, scen, cacheVars, otherVars>>

\* debug_assert_failed: always DE_MANUAL_BREAK
debug_assert_failed(t, suppress) == debug_display_error(t, TRUE, suppress)

\* debug_warn_err: always DE_MANUAL_BREAK
debug_warn_err(t, suppress) == debug_display_error(t, TRUE, suppress)

(***************************************************************************)
(* build_error_message: which text the report carries.                     *)
(***************************************************************************)
build_error_message(buf_ok, fmt_ok, is_nested_error) ==
    IF ~buf_ok THEN "insufficient_memory"
    ELSE IF ~fmt_ok THEN "format_error"
    ELSE IF ~is_nested_error THEN "trace"
    ELSE "nested_text"

\* observer of the first reports: (mode, text) of each, while the run is
\* "an outer report, one report from within its stack trace, then a report
\* started after both have returned"; "off" as soon as it is anything else.
ScenOff == [live |-> FALSE, seen |-> <<>>]

ScenNext(t, entry) ==
    IF ~scen.live THEN scen
    ELSE IF Len(scen.seen) = 0 THEN [scen EXCEPT !.seen = <<entry>>]
    ELSE IF Len(scen.seen) = 1
         THEN IF /\ Len(stack[t]) >= 2
                 /\ stack[t][Len(stack[t]) - 1].pc = "dump"
                 /\ TotalFrames = 2
              THEN [scen EXCEPT !.seen = Append(@, entry)] ELSE ScenOff
    ELSE IF Len(scen.seen) = 2
         THEN IF TotalFrames = 1
              THEN [scen EXCEPT !.seen = Append(@, entry)] ELSE ScenOff
    ELSE ScenOff

\* mutant: the crash log is written for a nested report too
AfterBuild_LogNested(f, text, is_nested) ==
    IF text = "trace" THEN [f EXCEPT !.pc = "dump"]
    ELSE [f EXCEPT !.pc = "crashlog", !.logs = @ + 1]

(***************************************************************************)
(* debug_display_error after build_error_message: only the outer report    *)
(* writes the crash log; then call_display_error.                          *)
(***************************************************************************)
AfterBuild(f, text, is_nested) ==
    IF text = "trace" THEN [f EXCEPT !.pc = "dump"]
    ELSE IF ~is_nested THEN [f EXCEPT !.pc = "crashlog", !.logs = @ + 1]
    ELSE [f EXCEPT !.pc = "ah", !.disp = @ + 1]

(***************************************************************************)
(* The compare-and-swap on already_in_progress and the call of             *)
(* build_error_message; an outer report with a formatted header goes on    *)
(* into debug_dump_stack.                                                  *)
(***************************************************************************)
Cas(t) ==
    /\ Running(t, "cas")
    /\ \E fmt_ok \in BOOLEAN :
        LET is_nested == already_in_progress # 0
            text == build_error_message(TRUE, fmt_ok, is_nested)
            f == [Top(t) EXCEPT !.nested = is_nested]
        IN  /\ already_in_progress' = 1
            /\ SetTop(t, AfterBuild(f, text, is_nested))
            /\ scen' = ScenNext(t, [nested |-> is_nested, text |-> text])
    /\ UNCHANGED <<exit_requested, suppress_cell, cacheVars, otherVars>>

\* debug_dump_stack returns; the outer report goes on to debug_write_crashlog
DumpDone(t) ==
    /\ Running(t, "dump")
    /\ SetTop(t, [Top(t) EXCEPT !.pc = "crashlog", !.logs = @ + 1])
    /\ UNCHANGED <<already_in_progress, exit_requested, suppress_cell, scen, cacheVars, otherVars>>

\* debug_write_crashlog returns (its result is ignored); call_display_error
\* starts with the application hook
LogDone(t) ==
    /\ Running(t, "crashlog")
    /\ SetTop(t, [Top(t) EXCEPT !.pc = "ah", !.disp = @ + 1])
    /\ UNCHANGED <<already_in_progress, exit_requested, suppress_cell, scen, cacheVars, otherVars>>

\* mutant: ER_SUPPRESS is downgraded without writing the sentinel
carry_out_ErrorReaction_NoSentinel(t, f, er) ==
    IF er = ER_BREAK
    THEN /\ IF ~f.mb
            THEN SetTop(t, [f EXCEPT !.pc = "ret", !.brk = @ + 1,
                                     !.ret = ER_CONTINUE])
            ELSE SetTop(t, [f EXCEPT !.pc = "ret", !.ret = ER_BREAK])
         /\ UNCHANGED <<suppress_cell, exit_requested>>
    ELSE IF er = ER_SUPPRESS
    THEN /\ SetTop(t, [f EXCEPT !.pc = IF f.sup = NULL THEN "fault" ELSE "ret",
                                !.ret = IF f.sup = NULL THEN "none" ELSE ER_CONTINUE])
         /\ UNCHANGED <<suppress_cell, exit_requested>>
    ELSE IF er = ER_EXIT
    THEN /\ exit_requested' = TRUE
         /\ SetTop(t, [f EXCEPT !.pc = "exit"])
         /\ UNCHANGED suppress_cell
    ELSE /\ SetTop(t, [f EXCEPT !.pc = "ret", !.ret = er])
         /\ UNCHANGED <<suppress_cell, exit_requested>>

\* mutant: ER_BREAK breaks into the debugger whatever DE_MANUAL_BREAK says
carry_out_ErrorReaction_AlwaysBreak(t, f, er) ==
    IF er = ER_BREAK
    THEN /\ SetTop(t, [f EXCEPT !.pc = "ret", !.brk = @ + 1,
                                !.ret = ER_CONTINUE])
         /\ UNCHANGED <<suppress_cell, exit_requested>>
    ELSE IF er = ER_SUPPRESS
    THEN IF f.sup = NULL
         THEN /\ SetTop(t, [f EXCEPT !.pc = "fault"])
              /\ UNCHANGED <<suppress_cell, exit_requested>>
         ELSE /\ suppress_cell' = [suppress_cell EXCEPT ![f.sup] = DEBUG_SUPPRESS]
              /\ SetTop(t, [f EXCEPT !.pc = "ret", !.ret = ER_CONTINUE])
              /\ UNCHANGED exit_requested
    ELSE IF er = ER_EXIT
    THEN /\ exit_requested' = TRUE
         /\ SetTop(t, [f EXCEPT !.pc = "exit"])
         /\ UNCHANGED suppress_cell
    ELSE /\ SetTop(t, [f EXCEPT !.pc = "ret", !.ret = er])
         /\ UNCHANGED <<suppress_cell, exit_requested>>

(***************************************************************************)
(* carry_out_ErrorReaction on the activation f of thread t.  ER_SUPPRESS   *)
(* writes through suppress, which is a write through a null pointer when   *)
(* the caller gave none; ER_EXIT ends in exit() and does not return.       *)
(***************************************************************************)
carry_out_ErrorReaction(t, f, er) ==
    IF er = ER_BREAK
    THEN /\ IF ~f.mb
            THEN SetTop(t, [f EXCEPT !.pc = "ret", !.brk = @ + 1,
                                     !.ret = ER_CONTINUE])
            ELSE SetTop(t, [f EXCEPT !.pc = "ret", !.ret = ER_BREAK])
         /\ UNCHANGED <<suppress_cell, exit_requested>>
    ELSE IF er = ER_SUPPRESS
    THEN IF f.sup = NULL
         THEN /\ SetTop(t, [f EXCEPT !.pc = "fault"])
              /\ UNCHANGED <<suppress_cell, exit_requested>>
         ELSE /\ suppress_cell' = [suppress_cell EXCEPT ![f.sup] = DEBUG_SUPPRESS]
              /\ SetTop(t, [f EXCEPT !.pc = "ret", !.ret = ER_CONTINUE])
              /\ UNCHANGED exit_requested
    ELSE IF er = ER_EXIT
    THEN /\ exit_requested' = TRUE
         /\ SetTop(t, [f EXCEPT !.pc = "exit"])
         /\ UNCHANGED suppress_cell
    ELSE /\ SetTop(t, [f EXCEPT !.pc = "ret", !.ret = er])
         /\ UNCHANGED <<suppress_cell, exit_requested>>

\* mutant: already_in_progress is not cleared on the ER_EXIT path
Finish_ExitKeepsGuard(t, er) ==
    /\ already_in_progress' = IF er = ER_EXIT THEN already_in_progress ELSE 0
    /\ carry_out_ErrorReaction(t, [Top(t) EXCEPT !.er = er], er)
    /\ UNCHANGED <<scen, cacheVars, otherVars>>

(***************************************************************************)
(* The end of debug_display_error once the display sink has answered er:   *)
(* free the buffer, clear already_in_progress, carry out the reaction.     *)
(***************************************************************************)
Finish(t, er) ==
    /\ already_in_progress' = 0
    /\ carry_out_ErrorReaction(t, [Top(t) EXCEPT !.er = er], er)
    /\ UNCHANGED <<scen, cacheVars, otherVars>>

\* call_display_error: ah_display_error answers
HookReturn(t, er) ==
    /\ Running(t, "ah")
    /\ IF er = ER_NOT_IMPLEMENTED
       THEN /\ SetTop(t, [Top(t) EXCEPT !.pc = "sys", !.er = er])
            /\ UNCHANGED <<already_in_progress, exit_requested, suppress_cell, scen, cacheVars, otherVars>>
       ELSE Finish(t, er)

\* call_display_error: sys_display_error answers
SysReturn(t, er) ==
    /\ Running(t, "sys")
    /\ Finish(t, er)

\* debug_display_error returns to its caller
Return(t) ==
    /\ Running(t, "ret")
    /\ stack' = [stack EXCEPT ![t] = SubSeq(@, 1, Len(@) - 1)]
    /\ UNCHANGED <<already_in_progress, exit_requested, suppress_cell, scen, cacheVars, otherVars>>

ReportInit ==
    /\ already_in_progress = 0
    /\ exit_requested = FALSE
    /\ suppress_cell = [c \in SuppressCells |-> UNSET]
    /\ stack = [t \in Threads |-> <<>>]
    /\ scen = [live |-> TRUE, seen |-> <<>>]

ReportNext ==
    \E t \in Threads :
        \/ \E mb \in BOOLEAN, sup \in SuppressRefs : debug_display_error(t, mb, sup)
        \/ \E sup \in SuppressRefs : debug_assert_failed(t, sup)
        \/ \E sup \in SuppressRefs : debug_warn_err(t, sup)
        \/ Cas(t)
        \/ DumpDone(t)
        \/ LogDone(t)
        \/ \E er \in Decisions \cup {ER_NOT_IMPLEMENTED} : HookReturn(t, er)
        \/ \E er \in Decisions : SysReturn(t, er)
        \/ Return(t)


(***************************************************************************)
(* The symbol-string cache.  The arena and the table are scaled down: one  *)
(* arena unit holds one formatted field of a description (the location,    *)
(* the name) or the terminating NUL.                                       *)
(***************************************************************************)
\* static const uint MAX_SYMBOLS (2048 in the source)
MAX_SYMBOLS == 4

\* static const size_t STRING_BUF_SIZE (64 KiB in the source)
STRING_BUF_SIZE == 14

\* const size_t STRING_MAX (1000 in the source)
STRING_MAX == 5

\* addresses of symbols: non-null, one more than the table can hold, some
\* of them colliding under hash
Addrs == {4 * i : i \in 1..MAX_SYMBOLS + 1}

\* the addresses and the null pointer
AllAddrs == Addrs \cup {0}

Token(k, str, n) == [k |-> k, s |-> str, n |-> n]

NUL == Token("NUL", "", 0)

\* a byte of the arena that was never written
JUNK == Token("junk", "", 0)

NULLPTR == -1

\* what the caller knows: name and file may be NULL, line may be 0
Hints ==
    {[name |-> NULL, file |-> NULL, line |-> 0],
     [name |-> "fn", file |-> "d/f.cpp", line |-> 7]}

\* what debug_resolve_symbol leaves in name_buf, file_buf and line_buf
ProviderResults ==
    {[name |-> "", file |-> "", line |-> 0],
     [name |-> "pfn", file |-> "p/g.cpp", line |-> 9]}

\* path_name_only: the file name without its directories
path_name_only(file) ==
    IF file = "d/f.cpp" THEN "f.cpp"
    ELSE IF file = "p/g.cpp" THEN "g.cpp"
    ELSE file

\* debug_stl_simplify_name: leaves a name that is no STL name as it is
debug_stl_simplify_name(name) == name

\* mutant: the provider's answer is taken only for a field the caller left
\* unknown
symbol_string_text_KeepCaller(symbol, h, prov) ==
    LET name == IF h.name = NULL /\ prov.name # "" THEN prov.name ELSE h.name
        file == IF h.file = NULL /\ prov.file # "" THEN prov.file ELSE h.file
        line == IF h.line = 0 /\ prov.line # 0 THEN prov.line ELSE h.line
        loc == IF file # NULL /\ line # 0
               THEN Token("at", path_name_only(file), line)
               ELSE Token("ptr", "", symbol)
    IN  IF name # NULL
        THEN <<loc, Token("name", debug_stl_simplify_name(name), 0)>>
        ELSE <<loc>>

\* mutant: the room check is off by one
ArenaFull_OffByOne(pos) == pos + STRING_MAX > STRING_BUF_SIZE

\* symbol_string_build: is there not enough space for a new string?
ArenaFull(pos) == pos + STRING_MAX >= STRING_BUF_SIZE

(***************************************************************************)
(* symbol_string_build, the text: the fields of the description, given the *)
(* caller's hints and what the debug-info provider answers.                *)
(***************************************************************************)
symbol_string_text(symbol, h, prov) ==
    LET ask == h.name = NULL \/ h.file = NULL \/ h.line = 0
        name == IF ask /\ prov.name # "" THEN prov.name ELSE h.name
        file == IF ask /\ prov.file # "" THEN prov.file ELSE h.file
        line == IF ask /\ prov.line # 0 THEN prov.line ELSE h.line
        loc == IF file # NULL /\ line # 0
               THEN Token("at", path_name_only(file), line)
               ELSE Token("ptr", "", symbol)
    IN  IF name # NULL
        THEN <<loc, Token("name", debug_stl_simplify_name(name), 0)>>
        ELSE <<loc>>

\* every combination of known and unknown name, file and line
AllHints == [name : {NULL, "fn"}, file : {NULL, "d/f.cpp"}, line : {0, 7}]

\* every combination of empty and non-empty answers of debug_resolve_symbol
AllProviderResults == [name : {"", "pfn"}, file : {"", "p/g.cpp"}, line : {0, 9}]

NotBuilt ==
    [set |-> FALSE, symbol |-> 0, hints |-> [name |-> NULL, file |-> NULL, line |-> 0],
     prov |-> [name |-> "", file |-> "", line |-> 0], str |-> <<>>]

(***************************************************************************)
(* symbol_string_build on its own, with room in the arena: the description *)
(* it formats for an address, hints and provider answers.                  *)
(***************************************************************************)
symbol_string_build(symbol, h, prov) ==
    /\ built' = [set |-> TRUE, symbol |-> symbol, hints |-> h, prov |-> prov,
                 str |-> symbol_string_text(symbol, h, prov)]
    /\ UNCHANGED <<reportVars, cacheVars, filterVars, logVars, tlsVars>>

BuildInit == built = NotBuilt

BuildNext ==
    \E symbol \in Addrs, h \in AllHints, prov \in AllProviderResults :
        symbol_string_build(symbol, h, prov)

\* the arena with str and its NUL written at offset pos
WriteString(buf, pos, str) ==
    [i \in 1..Len(buf) |->
        IF i - 1 >= pos /\ i - 1 < pos + Len(str) THEN str[i - pos]
        ELSE IF i - 1 = pos + Len(str) THEN NUL
        ELSE buf[i]]

\* the C string at offset p of the arena
RECURSIVE StrAt(_, _)
StrAt(buf, p) ==
    IF p < 0 \/ p >= Len(buf) THEN <<>>
    ELSE IF buf[p + 1] = NUL THEN <<>>
    ELSE <<buf[p + 1]>> \o StrAt(buf, p + 1)

\* static uint hash(void* symbol)
hash(symbol) == (symbol \div 4) % MAX_SYMBOLS

\* a null string_buf or symbols pointer
NOMEM == <<>>

\* the table after calloc; slot i of the source is element i + 1
EmptyTable == [i \in 1..MAX_SYMBOLS |-> [symbol |-> 0, string |-> NULLPTR]]

\* symbol_string_add_to_cache: the first empty slot from idx on, or -1 when
\* the probe has been through every slot (the loop of the source would not
\* end)
RECURSIVE FindEmpty(_, _, _)
FindEmpty(tab, idx, n) ==
    IF n = MAX_SYMBOLS THEN -1
    ELSE IF tab[idx + 1].symbol = 0 THEN idx
    ELSE FindEmpty(tab, (idx + 1) % MAX_SYMBOLS, n + 1)

\* mutant: the arena is not advanced past a cached string
NextPos_Stuck(pos, str) == pos

\* symbol_string_add_to_cache: string_buf_pos += strlen(string)+1
NextPos(pos, str) == pos + Len(str) + 1

Idle ==
    [pc |-> "idle", symbol |-> 0, hints |-> [name |-> NULL, file |-> NULL, line |-> 0],
     idx |-> 0, probes |-> 0, result |-> NULLPTR, hit |-> FALSE]

NoUncached == [set |-> FALSE, pos |-> 0, str |-> <<>>]

NoFirst == [set |-> FALSE, str |-> <<>>, hints |-> [name |-> NULL, file |-> NULL, line |-> 0]]

(***************************************************************************)
(* debug_get_symbol_string is called: symbol_string_from_cache starts at   *)
(* hash(symbol), or finds nothing when there is no table yet.              *)
(***************************************************************************)
debug_get_symbol_string(symbol, h) ==
    /\ call.pc = "idle"
    /\ call' = [Idle EXCEPT !.pc = IF symbols = NOMEM THEN "build" ELSE "lookup",
                            !.symbol = symbol, !.hints = h, !.idx = hash(symbol)]
    /\ UNCHANGED <<string_buf, string_buf_pos, symbols, total_symbols, first, uncached, reportVars, otherVars>>

(***************************************************************************)
(* symbol_string_from_cache: one turn of the probing loop.  probes counts  *)
(* the slots passed; at MAX_SYMBOLS the loop is back where it started.     *)
(***************************************************************************)
Probe ==
    /\ call.pc = "lookup"
    /\ LET c == symbols[call.idx + 1] IN
        IF c.symbol = 0
        THEN call' = [call EXCEPT !.pc = "build"]
        ELSE IF c.symbol = call.symbol
        THEN call' = [call EXCEPT !.pc = "done", !.result = c.string, !.hit = TRUE]
        ELSE call' = [call EXCEPT !.idx = (@ + 1) % MAX_SYMBOLS,
                                  !.probes = IF @ < MAX_SYMBOLS THEN @ + 1 ELSE @]
    /\ UNCHANGED <<string_buf, string_buf_pos, symbols, total_symbols, first, uncached, reportVars, otherVars>>

(***************************************************************************)
(* The cache missed: symbol_string_build (which allocates the arena on     *)
(* first use and gives up when the arena is nearly full), then             *)
(* symbol_string_add_to_cache (which allocates the table on first use).    *)
(***************************************************************************)
BuildAndCache(prov, malloc_ok, calloc_ok) ==
    /\ call.pc = "build"
    /\ UNCHANGED <<reportVars, otherVars>>
    /\ IF string_buf = NOMEM /\ ~malloc_ok
       THEN \* malloc failed: WARN_ERR(ERR_NO_MEM); return 0
            /\ call' = [call EXCEPT !.pc = "done", !.result = NULLPTR]
            /\ UNCHANGED <<string_buf, string_buf_pos, symbols, total_symbols, first, uncached, reportVars, otherVars>>
       ELSE
        LET buf0 == IF string_buf = NOMEM
                    THEN [i \in 1..STRING_BUF_SIZE |-> JUNK]
                    ELSE string_buf
            pos0 == IF string_buf = NOMEM THEN 0 ELSE string_buf_pos
        IN  IF ArenaFull(pos0)
            THEN \* WARN_ERR(ERR_LIMIT); return 0
                 /\ string_buf' = buf0
                 /\ string_buf_pos' = pos0
                 /\ call' = [call EXCEPT !.pc = "done", !.result = NULLPTR]
                 /\ UNCHANGED <<symbols, total_symbols, first, uncached>>
            ELSE
             LET str == symbol_string_text(call.symbol, call.hints, prov)
                 buf1 == WriteString(buf0, pos0, str)
             IN  /\ string_buf' = buf1
                 /\ IF symbols = NOMEM /\ ~calloc_ok
                    THEN \* calloc failed: debug_warn, then a read through
                         \* the null table pointer
                         /\ call' = [call EXCEPT !.pc = "fault"]
                         /\ string_buf_pos' = pos0
                         /\ UNCHANGED <<symbols, total_symbols, first, uncached>>
                    ELSE
                     LET tab0 == IF symbols = NOMEM THEN EmptyTable ELSE symbols
                     IN  IF total_symbols >= MAX_SYMBOLS
                         THEN \* table full: the string is not cached
                              /\ symbols' = tab0
                              /\ string_buf_pos' = pos0
                              /\ call' = [call EXCEPT !.pc = "done", !.result = pos0]
                              /\ uncached' = IF uncached.set THEN uncached
                                              ELSE [set |-> TRUE, pos |-> pos0, str |-> str]
                              /\ UNCHANGED <<total_symbols, first>>
                         ELSE
                          LET slot == FindEmpty(tab0, hash(call.symbol), 0)
                          IN  /\ total_symbols' = total_symbols + 1
                              /\ IF slot = -1
                                 THEN /\ call' = [call EXCEPT !.pc = "hang"]
                                      /\ symbols' = tab0
                                      /\ string_buf_pos' = pos0
                                      /\ UNCHANGED <<first, uncached>>
                                 ELSE /\ symbols' = [tab0 EXCEPT ![slot + 1] =
                                            [symbol |-> call.symbol, string |-> pos0]]
                                      /\ string_buf_pos' = NextPos(pos0, str)
                                      /\ call' = [call EXCEPT !.pc = "done",
                                                              !.result = pos0]
                                      /\ UNCHANGED uncached
                                      /\ first' = IF first[call.symbol].set THEN first
                                                  ELSE [first EXCEPT ![call.symbol] =
                                                          [set |-> TRUE, str |-> str,
                                                           hints |-> call.hints]]

\* debug_get_symbol_string has returned call.result; the caller goes on
CacheReturn ==
    /\ call.pc = "done"
    /\ call' = Idle
    /\ UNCHANGED <<string_buf, string_buf_pos, symbols, total_symbols, first, uncached, reportVars, otherVars>>

CacheInit ==
    /\ string_buf = NOMEM
    /\ string_buf_pos = 0
    /\ symbols = NOMEM
    /\ total_symbols = 0
    /\ call = Idle
    /\ first = [a \in AllAddrs |-> NoFirst]
    /\ uncached = NoUncached

CacheNext ==
    \/ \E a \in Addrs, h \in Hints : debug_get_symbol_string(a, h)
    \/ Probe
    \/ \E prov \in ProviderResults, m, c \in BOOLEAN : BuildAndCache(prov, m, c)
    \/ CacheReturn

\* the cache when callers may also pass the null pointer as the address
CacheNextAny ==
    \/ \E a \in AllAddrs, h \in Hints : debug_get_symbol_string(a, h)
    \/ Probe
    \/ \E prov \in ProviderResults, m, c \in BOOLEAN : BuildAndCache(prov, m, c)
    \/ CacheReturn


(***************************************************************************)
(* The tag filter of debug_printf.  The table is scaled down; a topic is   *)
(* known by a small number and fnv_hash gives it its 32-bit hash.          *)
(***************************************************************************)
\* static const uint MAX_TAGS (20 in the source)
MAX_TAGS == 3

\* uint num_tags wraps around: at 2^32 in the source, scaled to 2^3
UINT_MOD == 8

\* one topic more than the table can hold
Topics == 1..(MAX_TAGS + 1)

\* a text without a topic prefix
NoTopic == 0

\* what debug_printf may be given: a text with no "topic|" prefix, or one
\* whose prefix is the topic
Texts == {NoTopic} \cup Topics

\* fnv_hash (lib.h): distinct and non-zero for the topics used here
fnv_hash(tag) == 97 + 37 * tag

\* the slots (0-based) whose value is h
SlotsWith(h) == {i \in 0..(MAX_TAGS - 1) : tags[i + 1] = h}

\* the first slot the loops of add and remove find
FirstSlotWith(h) == CHOOSE i \in SlotsWith(h) : \A j \in SlotsWith(h) : i <= j

(***************************************************************************)
(* filter_allows                                                           *)
(***************************************************************************)
filter_allows(text) ==
    IF text = NoTopic THEN TRUE
    ELSE SlotsWith(fnv_hash(text)) # {}

NoOp == [op |-> "none", topic |-> NoTopic, accepted |-> FALSE]

FreshOff == [on |-> FALSE, set |-> {}]

(***************************************************************************)
(* debug_filter_add                                                        *)
(***************************************************************************)
debug_filter_add(tag) ==
    /\ ~tags_oob
    /\ LET h == fnv_hash(tag) IN
        IF SlotsWith(h) # {}
        THEN \* already in the list
             /\ UNCHANGED <<tags, num_tags, tags_oob>>
             /\ live' = live \cup {tag}
             /\ lastop' = [op |-> "add", topic |-> tag, accepted |-> TRUE]
        ELSE IF num_tags = MAX_TAGS
        THEN \* debug_warn("increase MAX_TAGS")
             /\ UNCHANGED <<tags, num_tags, tags_oob, live>>
             /\ lastop' = [op |-> "add", topic |-> tag, accepted |-> FALSE]
        ELSE \* tags[num_tags++] = hash
             /\ num_tags' = (num_tags + 1) % UINT_MOD
             /\ IF num_tags < MAX_TAGS
                THEN /\ tags' = [tags EXCEPT ![num_tags + 1] = h]
                     /\ UNCHANGED tags_oob
                     /\ live' = live \cup {tag}
                     /\ lastop' = [op |-> "add", topic |-> tag, accepted |-> TRUE]
                ELSE /\ tags_oob' = TRUE
                     /\ UNCHANGED <<tags, live>>
                     /\ lastop' = [op |-> "add", topic |-> tag, accepted |-> FALSE]
    /\ fresh' = IF fresh.on THEN [fresh EXCEPT !.set = @ \cup {tag}] ELSE fresh
    /\ UNCHANGED <<shown, exceptFilter>>

(***************************************************************************)
(* debug_filter_remove                                                     *)
(***************************************************************************)
debug_filter_remove(tag) ==
    /\ ~tags_oob
    /\ LET h == fnv_hash(tag) IN
        IF SlotsWith(h) # {}
        THEN \* tags[i] = tags[MAX_TAGS-1]; num_tags--
             /\ tags' = [tags EXCEPT ![FirstSlotWith(h) + 1] = tags[MAX_TAGS]]
             /\ num_tags' = (num_tags - 1) % UINT_MOD
        ELSE UNCHANGED <<tags, num_tags>>
    /\ live' = live \ {tag}
    /\ lastop' = [op |-> "remove", topic |-> tag, accepted |-> TRUE]
    /\ fresh' = FreshOff
    /\ UNCHANGED <<tags_oob, shown, exceptFilter>>

(***************************************************************************)
(* debug_filter_clear                                                      *)
(***************************************************************************)
debug_filter_clear ==
    /\ ~tags_oob
    /\ tags' = [i \in 1..MAX_TAGS |-> 0]
    /\ live' = {}
    /\ lastop' = [op |-> "clear", topic |-> NoTopic, accepted |-> TRUE]
    /\ fresh' = [on |-> TRUE, set |-> {}]
    /\ UNCHANGED <<num_tags, tags_oob, shown, exceptFilter>>

(***************************************************************************)
(* debug_printf / debug_wprintf: the text goes to debug_puts iff the       *)
(* filter allows it.                                                       *)
(***************************************************************************)
debug_printf(text) ==
    /\ ~tags_oob
    /\ shown' = [text |-> text, put |-> filter_allows(text)]
    /\ UNCHANGED <<tags, num_tags, tags_oob, live, lastop, fresh, exceptFilter>>

FilterInit ==
    /\ tags = [i \in 1..MAX_TAGS |-> 0]
    /\ num_tags = 0
    /\ tags_oob = FALSE
    /\ shown = [text |-> NoTopic, put |-> FALSE]
    /\ live = {}
    /\ lastop = NoOp
    /\ fresh = FreshOff

FilterNext ==
    \/ \E tag \in Topics : debug_filter_add(tag)
    \/ \E tag \in Topics : debug_filter_remove(tag)
    \/ debug_filter_clear
    \/ \E text \in Texts : debug_printf(text)


(***************************************************************************)
(* The in-memory log of debug_wprintf_mem, scaled down.  A unit of the     *)
(* buffer is 0, "CR", "LF" or a character of a line; a line is len copies  *)
(* of one character.                                                       *)
(***************************************************************************)
\* half of LOG_CHARS (8192 in the source)
LogHalf == 4

\* static const size_t LOG_CHARS (16384 in the source)
LOG_CHARS == 2 * LogHalf

\* the room below which the older half is thrown away (512 in the source)
LowWater == 3

\* longest formatted line
MaxLine == 5

LineChars == {"a", "b"}

\* a zeroed unit, which is also the terminator of a string
L0 == "nul"

\* mutant: the older half is thrown away but the upper half is not zeroed
Compact_NoClear(buf) ==
    [i \in 1..LOG_CHARS |-> IF i <= LogHalf THEN buf[i + LogHalf] ELSE buf[i]]

\* debug_wprintf_mem: memcpy2(debug_log, middle, copy_size);
\* memset(middle, 0, copy_size)
Compact(buf) ==
    [i \in 1..LOG_CHARS |-> IF i <= LogHalf THEN buf[i + LogHalf] ELSE L0]

\* the bound handed to vswprintf: chars_left-2, converted to size_t
\* (a negative difference becomes a huge size_t, a bound that bounds nothing)
FormatBound(chars_left) ==
    IF chars_left - 2 < 0 THEN [huge |-> TRUE, n |-> 0]
    ELSE [huge |-> FALSE, n |-> chars_left - 2]

\* units from..from+Len(w)-1 of buf overwritten with w, as far as they are
\* inside the buffer
Poke(buf, from, w) ==
    [i \in 1..LOG_CHARS |->
        IF i - 1 >= from /\ i - 1 < from + Len(w) THEN w[i - from] ELSE buf[i]]

Chars(len, ch) == [k \in 1..len |-> ch]

NoCompaction == [did |-> FALSE, pre_buf |-> <<>>, pre_pos |-> 0, buf |-> <<>>, pos |-> 0]

(***************************************************************************)
(* debug_wprintf_mem with a line of len characters ch.  fmt_ok: the        *)
(* conversion itself succeeds; huge_ok: the C library formats under a      *)
(* bound of (size_t)-1 instead of refusing it; partial: a line that does   *)
(* not fit has left its beginning in the buffer.                           *)
(***************************************************************************)
debug_wprintf_mem(len, ch, fmt_ok, huge_ok, partial) ==
    /\ ~log_oob
    /\ LET chars_left == LOG_CHARS - debug_log_pos
           compact == chars_left < LowWater
           buf1 == IF compact THEN Compact(debug_log) ELSE debug_log
           pos1 == IF compact THEN debug_log_pos - LogHalf ELSE debug_log_pos
           n == FormatBound(chars_left)
           fits == IF n.huge THEN huge_ok ELSE len < n.n
           ok == fmt_ok /\ fits
           cut == IF n.huge \/ n.n = 0 \/ ~fmt_ok \/ ~partial THEN <<>>
                  ELSE Chars(n.n - 1, ch) \o <<L0>>
           pos2 == pos1 + len + 2
       IN  /\ comp' = IF compact
                      THEN [did |-> TRUE, pre_buf |-> debug_log,
                            pre_pos |-> debug_log_pos, buf |-> buf1, pos |-> pos1]
                      ELSE NoCompaction
           /\ IF ~ok
              THEN \* len < 0: debug_warn("vswprintf failed"); return
                   /\ debug_log' = Poke(buf1, pos1, cut)
                   /\ debug_log_pos' = pos1
                   /\ UNCHANGED log_oob
                   /\ lastlog' = [ok |-> FALSE, len |-> len, ch |-> ch, at |-> pos1]
              ELSE \* debug_log_pos += len+2; wcscpy(debug_log_pos-2, L"\r\n")
                   /\ debug_log' = Poke(buf1, pos1, Chars(len, ch) \o <<"CR", "LF", L0>>)
                   /\ debug_log_pos' = pos2
                   /\ log_oob' = (pos2 + 1 > LOG_CHARS)
                   /\ lastlog' = [ok |-> TRUE, len |-> len, ch |-> ch, at |-> pos1]
    /\ UNCHANGED exceptLog

LogInit ==
    /\ debug_log = [i \in 1..LOG_CHARS |-> L0]
    /\ debug_log_pos = 0
    /\ log_oob = FALSE
    /\ lastlog = [ok |-> FALSE, len |-> 0, ch |-> "a", at |-> 0]
    /\ comp = NoCompaction

LogNext ==
    \E len \in 0..MaxLine, ch \in LineChars, fmt_ok, huge_ok, partial \in BOOLEAN :
        debug_wprintf_mem(len, ch, fmt_ok, huge_ok, partial)

(***************************************************************************)
(* Thread names: debug_set_thread_name, debug_get_thread_name and          *)
(* debug_shutdown over a pthread key that tls_init creates under           *)
(* pthread_once.                                                           *)
(***************************************************************************)
Names == {"main", "worker"}

\* tls_key as the static initialiser left it, or after tls_shutdown: not a
\* key obtained from pthread_key_create
KEY_ZERO == "zero"
KEY_CREATED == "created"

PTHREAD_ONCE_INIT == "PTHREAD_ONCE_INIT"

\* what pthread_getspecific may hand back for a key that was not created:
\* the value some other owner of that key number stored for the thread
FOREIGN == "foreign"

TIdle == [pc |-> "idle", name |-> NULL, result |-> NULL]

\* debug_set_thread_name is called
debug_set_thread_name(t, name) ==
    /\ tcall[t].pc = "idle"
    /\ tcall' = [tcall EXCEPT ![t] = [pc |-> "once", name |-> name, result |-> NULL]]
    /\ UNCHANGED <<tls_key, tls_once, tls, inits, named, exceptTls>>

\* pthread_once(&tls_once, tls_init): the first caller runs tls_init, the
\* others wait until it has finished
pthread_once(t) ==
    /\ tcall[t].pc = "once"
    /\ tls_once # "running"
    /\ IF tls_once = PTHREAD_ONCE_INIT
       THEN /\ tls_once' = "running"
            /\ tcall' = [tcall EXCEPT ![t].pc = "init"]
       ELSE /\ UNCHANGED tls_once
            /\ tcall' = [tcall EXCEPT ![t].pc = "setspecific"]
    /\ UNCHANGED <<tls_key, tls, inits, named, exceptTls>>

\* tls_init: pthread_key_create, which may fail (WARN_ERR)
tls_init(t, create_ok) ==
    /\ tcall[t].pc = "init"
    /\ tls_key' = IF create_ok THEN KEY_CREATED ELSE tls_key
    /\ tls_once' = "done"
    /\ inits' = inits + 1
    /\ tcall' = [tcall EXCEPT ![t].pc = "setspecific"]
    /\ UNCHANGED <<tls, named, exceptTls>>

\* pthread_setspecific(tls_key, name); with a key that was not created the
\* name is not stored for this module
pthread_setspecific(t) ==
    /\ tcall[t].pc = "setspecific"
    /\ tls' = IF tls_key = KEY_CREATED THEN [tls EXCEPT ![t] = tcall[t].name] ELSE tls
    /\ named' = [named EXCEPT ![t] = tcall[t].name]
    /\ tcall' = [tcall EXCEPT ![t] = TIdle]
    /\ UNCHANGED <<tls_key, tls_once, inits, exceptTls>>

\* debug_get_thread_name: pthread_getspecific(tls_key); undefined for a key
\* that was not created
debug_get_thread_name(t) ==
    /\ tcall[t].pc = "idle"
    /\ \E v \in {NULL, FOREIGN} :
          tcall' = [tcall EXCEPT ![t] =
                       [pc |-> "got", name |-> NULL,
                        result |-> IF tls_key = KEY_CREATED THEN tls[t] ELSE v]]
    /\ UNCHANGED <<tls_key, tls_once, tls, inits, named, exceptTls>>

\* debug_get_thread_name has returned tcall[t].result
GetReturn(t) ==
    /\ tcall[t].pc = "got"
    /\ tcall' = [tcall EXCEPT ![t] = TIdle]
    /\ UNCHANGED <<tls_key, tls_once, tls, inits, named, exceptTls>>

\* debug_shutdown: tls_shutdown deletes the key and zeroes tls_key
debug_shutdown ==
    /\ tls_key = KEY_CREATED
    /\ tls_key' = KEY_ZERO
    /\ tls' = [t \in Threads |-> NULL]
    /\ UNCHANGED <<tls_once, tcall, inits, named, exceptTls>>

TlsInit ==
    /\ tls_key = KEY_ZERO
    /\ tls_once = PTHREAD_ONCE_INIT
    /\ tls = [t \in Threads |-> NULL]
    /\ tcall = [t \in Threads |-> TIdle]
    /\ inits = 0
    /\ named = [t \in Threads |-> NULL]

TlsNext ==
    \E t \in Threads :
        \/ \E name \in Names : debug_set_thread_name(t, name)
        \/ pthread_once(t)
        \/ \E create_ok \in BOOLEAN : tls_init(t, create_ok)
        \/ pthread_setspecific(t)
        \/ debug_get_thread_name(t)
        \/ GetReturn(t)
        \/ debug_shutdown

Init == ReportInit /\ CacheInit /\ FilterInit /\ LogInit /\ TlsInit /\ BuildInit

Next == ReportNext \/ CacheNextAny \/ FilterNext \/ LogNext \/ TlsNext \/ BuildNext

SpecReport == Init /\ [][ReportNext]_vars

SpecCache == Init /\ [][CacheNext]_vars

SpecCacheAny == Init /\ [][CacheNextAny]_vars

SpecBuild == Init /\ [][BuildNext]_vars

SpecFilter == Init /\ [][FilterNext]_vars

SpecLog == Init /\ [][LogNext]_vars

SpecThreads == Init /\ [][TlsNext]_vars

Spec == Init /\ [][Next]_vars
(***************************************************************************)
(* Properties of the error reporter.                                       *)
(***************************************************************************)
\* a report between its compare-and-swap and its clearing of the guard
InFlightPcs == {"dump", "crashlog", "ah", "sys"}

OuterMode(p) == FrameAt(p).pc \in InFlightPcs /\ ~FrameAt(p).nested

\* the activation a step has just pushed on thread t
Pushed(t) == Len(stack'[t]) = Len(stack[t]) + 1

NewTop(t) == stack'[t][Len(stack'[t])]

NoEffect(f) == f.out = 0 /\ f.logs = 0 /\ f.disp = 0 /\ f.brk = 0

\* C1: at no time are two report calls in outer mode at once, and
\* debug_dump_stack is never invoked while another invocation of it is
\* still in progress.
C1_SingleFlight ==
    /\ Cardinality({p \in Frames : OuterMode(p)}) <= 1
    /\ Cardinality({p \in Frames : FrameAt(p).pc = "dump"}) <= 1

\* C2: once exit_requested is set, every report call that starts, with or
\* without a suppress reference, returns ER_CONTINUE at once: no output, no
\* crash log, no display, the guard untouched.
C2_ExitSticky ==
    [][\A t \in Threads :
         (exit_requested /\ Pushed(t)) =>
            /\ NewTop(t).pc = "ret"
            /\ NewTop(t).ret = ER_CONTINUE
            /\ NoEffect(NewTop(t))
            /\ already_in_progress' = already_in_progress]_vars

\* C3: whenever no report call is in progress the guard is clear (more: the
\* guard is set only while some report is between its compare-and-swap and
\* its release); in a run that is an outer report, one report from within its
\* stack trace, and a third report after both returned, the first carries
\* the stack trace, the second is nested and carries none, the third is
\* outer again; a report that goes into exit() has cleared the guard.
C3_Inv ==
    /\ TotalFrames = 0 => already_in_progress = 0
    /\ already_in_progress # 0 =>
          \E p \in Frames : FrameAt(p).pc \in InFlightPcs
    /\ (scen.live /\ Len(scen.seen) >= 2) =>
          /\ scen.seen[1] = [nested |-> FALSE, text |-> "trace"]
          /\ scen.seen[2].nested
          /\ scen.seen[2].text # "trace"
    /\ (scen.live /\ Len(scen.seen) >= 3) => ~scen.seen[3].nested

C3_GuardReleased ==
    /\ []C3_Inv
    /\ [][\A t \in Threads :
            (/\ stack[t] # <<>>
             /\ Len(stack'[t]) = Len(stack[t])
             /\ Top(t).pc # "exit"
             /\ NewTop(t).pc = "exit") => already_in_progress' = 0]_vars

\* C3 witness: the third report of the scenario has been built
C3_Witness == scen.live /\ Len(scen.seen) = 3

\* C4: a report call whose suppress cell already holds the sentinel returns
\* ER_CONTINUE and changes nothing: no output, no crash log, no display, and
\* the guard, the exit flag and the cell are unchanged.
C4_SuppressedNoEffect ==
    [][\A t \in Threads :
         (/\ Pushed(t)
          /\ NewTop(t).sup # NULL
          /\ suppress_cell[NewTop(t).sup] = DEBUG_SUPPRESS) =>
            /\ NewTop(t).pc = "ret"
            /\ NewTop(t).ret = ER_CONTINUE
            /\ NoEffect(NewTop(t))
            /\ UNCHANGED <<already_in_progress, exit_requested, suppress_cell>>]_vars

\* C4 witness: a call through a suppressed cell has returned, with the exit
\* flag clear
C4_Witness ==
    /\ ~exit_requested
    /\ \E p \in Frames :
          /\ FrameAt(p).pc = "ret"
          /\ FrameAt(p).out = 0
          /\ FrameAt(p).sup # NULL
          /\ suppress_cell[FrameAt(p).sup] = DEBUG_SUPPRESS

\* C5: in a report that is not short-circuited the display is invoked
\* exactly once; an outer report has written the crash log exactly once by
\* then, a nested report never writes it; the platform sink runs only after
\* the application hook answered ER_NOT_IMPLEMENTED.
C5_LogThenDisplay ==
    \A p \in Frames :
        LET f == FrameAt(p) IN
        /\ f.pc = "cas" => f.logs = 0 /\ f.disp = 0
        /\ f.pc = "dump" => ~f.nested /\ f.logs = 0 /\ f.disp = 0
        /\ f.pc = "crashlog" => ~f.nested /\ f.logs = 1 /\ f.disp = 0
        /\ (f.out = 1 /\ f.pc \in {"ah", "sys", "ret", "exit", "fault"}) =>
              /\ f.disp = 1
              /\ f.logs = IF f.nested THEN 0 ELSE 1
        /\ f.pc = "sys" => f.er = ER_NOT_IMPLEMENTED

\* C5 witness: an outer and a nested report have both returned
C5_Witness ==
    /\ \E p \in Frames :
          FrameAt(p).pc = "ret" /\ FrameAt(p).out = 1 /\ FrameAt(p).nested
    /\ \E p \in Frames :
          FrameAt(p).pc = "ret" /\ FrameAt(p).out = 1 /\ ~FrameAt(p).nested

\* C6: when the display answers ER_SUPPRESS to a report that gave a suppress
\* cell, the sentinel is in the cell when the report returns ER_CONTINUE; the
\* sentinel stays, and every report started through that cell afterwards
\* returns without reaching the display.
C6_Inv ==
    \A p \in Frames :
        (FrameAt(p).pc = "ret" /\ FrameAt(p).er = ER_SUPPRESS) =>
            /\ FrameAt(p).sup # NULL
            /\ FrameAt(p).ret = ER_CONTINUE
            /\ suppress_cell[FrameAt(p).sup] = DEBUG_SUPPRESS

C6_SuppressSticks ==
    /\ []C6_Inv
    /\ [][/\ \A c \in SuppressCells :
               suppress_cell[c] = DEBUG_SUPPRESS => suppress_cell'[c] = DEBUG_SUPPRESS
          /\ \A t \in Threads :
               (/\ Pushed(t)
                /\ NewTop(t).sup # NULL
                /\ suppress_cell[NewTop(t).sup] = DEBUG_SUPPRESS) =>
                  NewTop(t).pc = "ret" /\ NewTop(t).disp = 0]_vars

\* C6 witness: a report answered ER_SUPPRESS has returned and a later report
\* through the same cell has been short-circuited
C6_Witness ==
    \E p, q \in Frames :
        /\ FrameAt(p).pc = "ret" /\ FrameAt(p).er = ER_SUPPRESS
        /\ FrameAt(q).pc = "ret" /\ FrameAt(q).out = 0
        /\ FrameAt(q).sup = FrameAt(p).sup

\* C7: on ER_BREAK without DE_MANUAL_BREAK debug_break runs exactly once and
\* ER_CONTINUE is returned; with DE_MANUAL_BREAK no debug_break runs and
\* ER_BREAK is returned; debug_break runs in no other case; a report that
\* returns returns ER_CONTINUE or ER_BREAK, never ER_SUPPRESS or ER_EXIT.
C7_BreakAndReturn ==
    \A p \in Frames :
        LET f == FrameAt(p) IN
        /\ (f.pc = "ret" /\ f.er = ER_BREAK /\ ~f.mb) =>
              f.brk = 1 /\ f.ret = ER_CONTINUE
        /\ (f.pc = "ret" /\ f.er = ER_BREAK /\ f.mb) =>
              f.brk = 0 /\ f.ret = ER_BREAK
        /\ f.er # ER_BREAK => f.brk = 0
        /\ f.pc = "ret" => f.ret \in {ER_CONTINUE, ER_BREAK}
        /\ f.pc = "ret" => f.er \notin {ER_EXIT, ER_NOT_IMPLEMENTED}
        /\ f.pc # "ret" => f.ret = "none"

\* C7 witness: ER_BREAK has been carried out once with and once without
\* DE_MANUAL_BREAK
C7_Witness ==
    /\ \E p \in Frames :
          FrameAt(p).pc = "ret" /\ FrameAt(p).er = ER_BREAK /\ FrameAt(p).mb
    /\ \E p \in Frames :
          FrameAt(p).pc = "ret" /\ FrameAt(p).er = ER_BREAK /\ ~FrameAt(p).mb
(***************************************************************************)
(* Properties of the symbol-string cache.                                  *)
(***************************************************************************)
\* the table entry of address a, or none
SlotsOf(a) == {i \in 1..Len(symbols) : symbols[i].symbol = a}

\* the arena has no room left for another string
NoRoom == string_buf # NOMEM /\ string_buf_pos + STRING_MAX >= STRING_BUF_SIZE

C9_LookupTerminates ==
    /\ call.pc # "hang"
    /\ call.pc = "lookup" => call.probes < MAX_SYMBOLS

\* C10 as stated: when the arena has no room for another description, the
\* resolve of an uncached address still returns the built string, caches
\* nothing and leaves the earlier entries as they are.
C10_ArenaFullReturnsString ==
    [][(call.pc = "build" /\ NoRoom /\ call'.pc # "build") =>
          /\ call'.pc = "done"
          /\ call'.result # NULLPTR
          /\ UNCHANGED <<symbols, total_symbols>>]_vars

\* C10 amended: when the arena has no room for another description, the
\* resolve of an uncached address returns no string (a null pointer), caches
\* nothing and leaves the arena and the earlier entries as they are.
C10_ArenaFullReturnsNull ==
    [][(call.pc = "build" /\ NoRoom /\ call'.pc # "build") =>
          /\ call'.pc = "done"
          /\ call'.result = NULLPTR
          /\ UNCHANGED <<string_buf, string_buf_pos, symbols, total_symbols>>]_vars

\* C10 witness: an uncached address was resolved with the arena out of room
\* while the table still had free slots and held earlier entries
C10_Witness ==
    /\ call.pc = "done"
    /\ ~call.hit
    /\ NoRoom
    /\ total_symbols > 0
    /\ total_symbols < MAX_SYMBOLS
    /\ SlotsOf(call.symbol) = {}

(***************************************************************************)
(* Properties of the tag filter.                                           *)
(***************************************************************************)
\* C11: after debug_filter_remove(t) has returned, a text with the topic
\* prefix t is not allowed by the filter, whatever calls came before.
C11_RemovedNotAllowed ==
    lastop.op = "remove" => ~filter_allows(lastop.topic)

\* C12: a topic that was added and accepted, and not removed or cleared
\* since, is allowed; a call of add or remove for a topic u leaves a text of
\* any other topic t allowed iff it was allowed before.
C12_Inv == \A t \in live : filter_allows(t)

C12_OthersUntouched ==
    /\ []C12_Inv
    /\ [][\A t \in Topics :
            (lastop'.op \in {"add", "remove"} /\ lastop' # lastop
               /\ lastop'.topic # t /\ tags' # tags)
            => (SlotsWith(fnv_hash(t)) # {}
                  <=> {i \in 0..(MAX_TAGS - 1) : tags'[i + 1] = fnv_hash(t)} # {})]_vars

\* C13: num_tags stays within 0..MAX_TAGS and no write of add lands outside
\* the table; an add that finds the table full, an add of a topic already
\* in the table and a remove of a topic not in it change nothing.
C13_Inv ==
    /\ num_tags \in 0..MAX_TAGS
    /\ ~tags_oob

C13_WithinSlots ==
    /\ []C13_Inv
    /\ [][((lastop'.op = "add" /\ lastop' # lastop /\ ~lastop'.accepted)
           \/ (lastop'.op = "add" /\ SlotsWith(fnv_hash(lastop'.topic)) # {})
           \/ (lastop'.op = "remove" /\ SlotsWith(fnv_hash(lastop'.topic)) = {}))
          => UNCHANGED <<tags, num_tags>>]_vars

\* C17: no hash is in two slots, and the occupied slots are exactly the
\* first num_tags slots.
C17_NoDuplicatesNoHoles ==
    /\ \A i, j \in 1..MAX_TAGS : (i # j /\ tags[i] # 0) => tags[i] # tags[j]
    /\ \A i \in 1..MAX_TAGS : tags[i] # 0 <=> i <= num_tags

\* C18: right after debug_filter_clear no text with a topic prefix is
\* allowed, and up to MAX_TAGS distinct topics added after it are all
\* accepted and allowed.
C18_ClearResets ==
    /\ lastop.op = "clear" => \A t \in Topics : ~filter_allows(t)
    /\ (fresh.on /\ Cardinality(fresh.set) <= MAX_TAGS) =>
          \A t \in fresh.set : filter_allows(t)

(***************************************************************************)
(* Properties of the in-memory log.                                        *)
(***************************************************************************)
\* C14: after any appends the cursor is within 0..LOG_CHARS and no append
\* has written outside the buffer; a successful append has left its text,
\* followed by the line terminator, immediately before the cursor; an
\* append whose formatting failed has added no line.
C14_LogWithinBuffer ==
    /\ debug_log_pos \in 0..LOG_CHARS
    /\ ~log_oob
    /\ lastlog.ok =>
          /\ debug_log_pos = lastlog.at + lastlog.len + 2
          /\ debug_log[debug_log_pos - 1] = "CR"
          /\ debug_log[debug_log_pos] = "LF"
          /\ \A k \in 1..lastlog.len : debug_log[lastlog.at + k] = lastlog.ch
    /\ ~lastlog.ok => debug_log_pos = lastlog.at

\* C15 as stated: a compaction keeps the most recent LOG_CHARS/2 units of
\* content written before it (the units just below the old cursor) at the
\* start of the buffer, clears the vacated region, moves the cursor back by
\* LOG_CHARS/2, and the buffered size is at most LOG_CHARS.
C15_KeepsRecentHalf ==
    comp.did =>
       /\ \A k \in 0..(LogHalf - 1) :
             comp.buf[k + 1] = comp.pre_buf[comp.pre_pos - LogHalf + k + 1]
       /\ \A k \in LogHalf..(LOG_CHARS - 1) : comp.buf[k + 1] = L0
       /\ comp.pos = comp.pre_pos - LogHalf
       /\ comp.pos \in 0..LOG_CHARS

\* C15 amended: a compaction moves the upper half of the buffer (units
\* LOG_CHARS/2 .. LOG_CHARS-1) unchanged to the start, so that the content
\* kept is what lay between LOG_CHARS/2 and the old cursor, fewer than
\* LOG_CHARS/2 units; it zeroes the upper half and moves the cursor back by
\* LOG_CHARS/2, to below LOG_CHARS/2.
C15_KeepsUpperHalf ==
    comp.did =>
       /\ comp.pre_pos > LOG_CHARS - LowWater
       /\ comp.pre_pos < LOG_CHARS
       /\ \A k \in 0..(LogHalf - 1) :
             comp.buf[k + 1] = comp.pre_buf[LogHalf + k + 1]
       /\ \A k \in LogHalf..(LOG_CHARS - 1) : comp.buf[k + 1] = L0
       /\ comp.pos = comp.pre_pos - LogHalf
       /\ comp.pos \in 0..(LogHalf - 1)

\* C15 witness: a compaction has kept characters of earlier lines and the
\* append that caused it has then succeeded
C15_Witness ==
    /\ comp.did
    /\ lastlog.ok
    /\ ~log_oob
    /\ \E k \in 1..LogHalf : comp.buf[k] \in LineChars

(***************************************************************************)
(* Properties of the thread names.                                         *)
(***************************************************************************)
\* C16: debug_get_thread_name returns the name the calling thread last
\* stored with debug_set_thread_name, or NULL if it stored none (also when
\* no thread has stored one yet); what one thread stores is not what
\* another reads; tls_init runs at most once.
C16_OwnNameOrAbsent ==
    /\ \A t \in Threads : tcall[t].pc = "got" => tcall[t].result = named[t]
    /\ inits <= 1

(***************************************************************************)
(* Properties of the descriptions symbol_string_build formats.             *)
(***************************************************************************)
\* the description with the given name, file and line
Described(symbol, name, file, line) ==
    LET loc == IF file # NULL /\ line # 0
               THEN Token("at", IF file = "d/f.cpp" THEN "f.cpp"
                                ELSE IF file = "p/g.cpp" THEN "g.cpp" ELSE file, line)
               ELSE Token("ptr", "", symbol)
    IN  IF name # NULL THEN <<loc, Token("name", name, 0)>> ELSE <<loc>>

\* some of name, file and line is unknown to the caller
SomeUnknown(h) == h.name = NULL \/ h.file = NULL \/ h.line = 0

\* C19 as stated: a name, file or line the caller supplied is used as
\* given; the provider's value is used only for a field the caller left
\* unknown, and only when it is non-empty.
C19_CallerDataKept ==
    built.set =>
       built.str = Described(built.symbol,
          IF built.hints.name = NULL /\ built.prov.name # ""
             THEN built.prov.name ELSE built.hints.name,
          IF built.hints.file = NULL /\ built.prov.file # ""
             THEN built.prov.file ELSE built.hints.file,
          IF built.hints.line = 0 /\ built.prov.line # 0
             THEN built.prov.line ELSE built.hints.line)

\* C19 amended: when the caller supplied name, file and line, all three
\* are used as given; when at least one of them is unknown, every field for
\* which the provider returned a non-empty value takes the provider's value,
\* also a field the caller supplied, and the other fields keep the caller's.
C19_ProviderOverrides ==
    built.set =>
       built.str = Described(built.symbol,
          IF SomeUnknown(built.hints) /\ built.prov.name # ""
             THEN built.prov.name ELSE built.hints.name,
          IF SomeUnknown(built.hints) /\ built.prov.file # ""
             THEN built.prov.file ELSE built.hints.file,
          IF SomeUnknown(built.hints) /\ built.prov.line # 0
             THEN built.prov.line ELSE built.hints.line)

\* C19 witness: the caller knew the name but not the file, the provider
\* answered with a name of its own, and the description carries that name
C19_Witness ==
    /\ built.set
    /\ built.hints.name = "fn"
    /\ built.hints.file = NULL
    /\ built.prov.name = "pfn"
    /\ Len(built.str) = 2
    /\ built.str[2].s = "pfn"

(***************************************************************************)
(* Properties of the strings debug_get_symbol_string has returned.         *)
(***************************************************************************)
\* the occupied slots of the table
Occupied == {i \in 1..Len(symbols) : symbols[i].symbol # 0}

\* the arena units of the string at offset p, its NUL included
Region(p) == p..(p + Len(StrAt(string_buf, p)))

\* C20: a string that was returned to a caller, cached or not, keeps its
\* content: the string of every cached address and the first string returned
\* without caching are still in the arena as they were built, and the
\* regions of distinct returned strings do not overlap.
C20_ReturnedStringsKeep ==
    /\ \A a \in Addrs :
          first[a].set =>
             \A i \in SlotsOf(a) : StrAt(string_buf, symbols[i].string) = first[a].str
    /\ uncached.set => StrAt(string_buf, uncached.pos) = uncached.str
    /\ \A i, j \in Occupied :
          i # j => Region(symbols[i].string) \cap Region(symbols[j].string) = {}
    /\ uncached.set =>
          \A i \in Occupied : Region(symbols[i].string) \cap Region(uncached.pos) = {}

(***************************************************************************)
(* Properties of carrying out the display sink's decision.                 *)
(***************************************************************************)
\* C21: whatever the display sink answers and whatever flags and suppress
\* reference the report was made with, the report either returns a decision
\* or ends the process in exit(): an activation that has been answered is
\* returning ER_CONTINUE or ER_BREAK or is in exit(), and ER_SUPPRESS is
\* never carried out by a write through a null suppress pointer.
C21_ReturnsOrExits ==
    \A p \in Frames :
       /\ FrameAt(p).pc # "fault"
       /\ FrameAt(p).pc = "ret" => FrameAt(p).ret \in {ER_CONTINUE, ER_BREAK}
       /\ FrameAt(p).er \in {ER_CONTINUE, ER_BREAK, ER_SUPPRESS, ER_EXIT} =>
             FrameAt(p).pc \in {"ret", "exit"}
====
